---------------------------- MODULE Spec2Model ----------------------------
(***************************************************************************)
(* Model of the orbit camera controller of src/src/lib.rs.                 *)
(*                                                                         *)
(* Numbers.  Every f32 of the source is a fixed-point integer here:        *)
(*   - an angle in radians is a multiple of 1/RadScale radian;             *)
(*   - an angle in degrees is a whole number of degrees.  An f32 keeps 24  *)
(*     bits, so a pitch of 64..114 degrees (1.12..2 rad) resolves 2^-17    *)
(*     degree held in degrees and 2^-23 radian held in radians: 64 steps   *)
(*     of the one for a step of the other.  RadScale = 64 keeps that       *)
(*     ratio, which makes to_degrees many-to-one as it is for an f32;      *)
(*   - a dimensionless factor (an event axis, a sensitivity, the smoothing *)
(*     rate, the seconds of a frame) is a multiple of 1/One;               *)
(*   - a length is a whole number of length units.                         *)
(* A product is rounded to the nearest representable value, as an f32      *)
(* product is; sums and differences of representable values are exact.     *)
(* NaN and the infinities are outside the model.                           *)
(*                                                                         *)
(* Geometry.  A Vec3 is followed along one axis, the world Y axis, and a   *)
(* Quat built by from_rotation_y(yaw) * from_rotation_x(pitch) is the pair *)
(* <<yaw, pitch>>.                                                         *)
(***************************************************************************)
EXTENDS Integers, Sequences, FiniteSets, TLC

VARIABLES
    settings,       \* Res<CameraSettings>
    camera_count,   \* number of entities With<MainCamera>
    camera,         \* Transform of the MainCamera entity: translation, rotation
    anchor_count,   \* number of entities with CameraAnchor, Without<MainCamera>
    anchor,         \* the anchor's Transform.translation and CameraAnchor.0
    compass,        \* Res<MovementCompass>
    events_a,       \* Events<RotateCameraEvent>: the older buffer
    events_b,       \* Events<RotateCameraEvent>: the buffer being written
    event_count,    \* Events<RotateCameraEvent>: events ever sent
    cursor,         \* the EventReader's count of events already read
    time_delta,     \* Time::delta_seconds() of the frame
    commands,       \* Commands queued and not yet applied
    pc,             \* "idle" between frames, "update" inside the Update schedule
    ran,            \* the systems that have run in this frame
    frame,          \* number of frames begun
    hist            \* history: the calls made, the events sent, what rotate_camera read

vars == <<settings, camera_count, camera, anchor_count, anchor, compass,
          events_a, events_b, event_count, cursor, time_delta, commands,
          pc, ran, frame, hist>>

(***************************************************************************)
(* Fixed-point arithmetic                                                  *)
(***************************************************************************)
RadScale == 64
One == 4
PI_NUM == 355
PI_DEN == 113

Abs(n) == IF n < 0 THEN -n ELSE n

\* n / d rounded to the nearest integer, a tie away from zero (d > 0)
RoundDiv(n, d) ==
    IF n >= 0 THEN (2 * n + d) \div (2 * d)
    ELSE -((2 * (-n) + d) \div (2 * d))

\* f32 * f32 where b is a dimensionless factor
Mul(a, b) == RoundDiv(a * b, One)

\* f32::to_degrees: self * (180 / PI)
to_degrees(v) == RoundDiv(v * 180 * PI_DEN, PI_NUM * RadScale)

\* f32::to_radians: self * (PI / 180)
to_radians(d) == RoundDiv(d * PI_NUM * RadScale, 180 * PI_DEN)

(***************************************************************************)
(* RotationLimits and CameraSettings                                       *)
(***************************************************************************)
RotationLimitsDefault == <<0, 0>>

clamp_returns_max_first(limits, value) ==
    LET as_degrees == to_degrees(value) IN
    IF as_degrees > limits[2] THEN to_radians(limits[2])
    ELSE IF as_degrees < limits[1] THEN to_radians(limits[1])
    ELSE value

\* RotationLimits::clamp
clamp(limits, value) ==
    LET as_degrees == to_degrees(value) IN
    IF as_degrees < limits[1] THEN to_radians(limits[1])
    ELSE IF as_degrees > limits[2] THEN to_radians(limits[2])
    ELSE value

CameraSettingsDefault ==
    [x_sensitivity |-> 0, y_sensitivity |-> 0, smoothing |-> 0,
     head_position |-> 0, x_limits |-> RotationLimitsDefault,
     x_angle |-> 0, y_angle |-> 0]

\* CameraSettings::rotate_x
rotate_x(cs, value) ==
    [cs EXCEPT !.x_angle = clamp(cs.x_limits, cs.x_angle + value)]

rotate_y_wraps(cs, value) ==
    LET turn == to_radians(360) IN
    [cs EXCEPT !.y_angle = ((cs.y_angle + value) % turn)]

\* CameraSettings::rotate_y
rotate_y(cs, value) ==
    [cs EXCEPT !.y_angle = cs.y_angle + value]


(***************************************************************************)
(* VictimlessCameraPlugin: the builder                                     *)
(***************************************************************************)
with_x_sensitivity(cs, value) == [cs EXCEPT !.x_sensitivity = value]

with_y_sensitivity(cs, value) == [cs EXCEPT !.y_sensitivity = value]

with_smoothing(cs, value) == [cs EXCEPT !.smoothing = value]

with_x_limits(cs, min, max) == [cs EXCEPT !.x_limits = <<min, max>>]

\* MovementCompass::default(): Quat::IDENTITY and Vec3::ZERO
MovementCompassDefault == [rotation |-> <<0, 0>>, position |-> 0]

\* Transform::default() of a spawned camera
TransformDefault == [translation |-> 0, rotation |-> <<0, 0>>]

(***************************************************************************)
(* Vec3 and Quat, along the followed axis                                  *)
(***************************************************************************)
lerp_wrong_sign(a, b, s) == a - Mul(b - a, s)

\* Vec3::lerp and f32 lerp: self + (rhs - self) * s
lerp(a, b, s) == a + Mul(b - a, s)

\* Quat::slerp on <<yaw, pitch>>: each angle interpolated by s
slerp(q, r, s) == <<lerp(q[1], r[1], s), lerp(q[2], r[2], s)>>

\* Quat::from_rotation_y(y_angle) * Quat::from_rotation_x(x_angle)
desired_rotation(cs) == <<cs.y_angle, cs.x_angle>>

\* (Quat * Vec3).y of a vertical offset: the yaw leaves Y alone and the pitch
\* scales it by cos(pitch), taken to second order: 1 - pitch^2 / 2
quat_mul_vec3(q, v) == v - RoundDiv(v * q[2] * q[2], 2 * RadScale * RadScale)

(***************************************************************************)
(* The systems                                                             *)
(***************************************************************************)
\* 360.0_f32.to_radians()
FullTurn == to_radians(360)

ApplyEvent_always_clamps(cs, ev, dt) ==
    LET x == ev.x
        y == ev.y
        x_sensitivty == cs.x_sensitivity
        y_sensitivity == cs.y_sensitivity
        cs1 == IF x # 0
               THEN rotate_y(cs, Mul(Mul(Mul(-x, FullTurn), dt), x_sensitivty))
               ELSE cs
    IN  rotate_x(cs1, Mul(Mul(Mul(-y, FullTurn), dt), y_sensitivity))

\* the body of the loop of read_camera_rotation_inputs, for one event
ApplyEvent(cs, ev, dt) ==
    LET x == ev.x
        y == ev.y
        x_sensitivty == cs.x_sensitivity
        y_sensitivity == cs.y_sensitivity
        cs1 == IF x # 0
               THEN rotate_y(cs, Mul(Mul(Mul(-x, FullTurn), dt), x_sensitivty))
               ELSE cs
    IN  IF y # 0
        THEN rotate_x(cs1, Mul(Mul(Mul(-y, FullTurn), dt), y_sensitivity))
        ELSE cs1

RECURSIVE ApplyEvents(_, _, _)
ApplyEvents(cs, evs, dt) ==
    IF evs = <<>> THEN cs
    ELSE ApplyEvents(ApplyEvent(cs, Head(evs), dt), Tail(evs), dt)

read_inputs_last_only(cs, dt, evs) ==
    IF evs = <<>> THEN cs ELSE ApplyEvent(cs, evs[Len(evs)], dt)

read_inputs_reclamps(cs, dt, evs) ==
    rotate_x(ApplyEvents(cs, evs, dt), 0)

\* read_camera_rotation_inputs: every unread event, in the order sent
read_camera_rotation_inputs(cs, dt, evs) == ApplyEvents(cs, evs, dt)

\* EventReader::read: the events of both buffers not read yet, oldest first
Unread(a, b, last_event_count) ==
    SelectSeq(a \o b, LAMBDA e : e.id > last_event_count)

translate_camera_unchecked(cs, dt, cam_count, cam, anc_count, anc) ==
    IF anc_count = 1
    THEN [cam EXCEPT !.translation =
             lerp(cam.translation, anc.translation, Mul(dt, cs.smoothing))]
    ELSE cam

\* translate_camera: the camera's Transform after the system
translate_camera(cs, dt, cam_count, cam, anc_count, anc) ==
    IF cam_count = 1
    THEN IF anc_count = 1
         THEN IF anc.offset # <<>>
              THEN LET camera_position ==
                           quat_mul_vec3(desired_rotation(cs), anc.offset[1])
                           + anc.translation
                   IN  [cam EXCEPT !.translation =
                           lerp(cam.translation, camera_position,
                                Mul(dt, cs.smoothing))]
              ELSE [cam EXCEPT !.translation =
                       lerp(cam.translation, anc.translation,
                            Mul(dt, cs.smoothing))]
         ELSE cam
    ELSE cam

rotate_camera_stale_event(cs, dt, cam_count, cam) ==
    IF cam_count = 1
    THEN LET rotation == slerp(cam.rotation, desired_rotation(cs),
                               Mul(dt, cs.smoothing))
         IN  [camera |-> [cam EXCEPT !.rotation = rotation],
              triggers |-> <<[rotation |-> cam.rotation,
                              translation |-> cam.translation]>>]
    ELSE [camera |-> cam, triggers |-> <<>>]

\* rotate_camera: the camera's Transform after the system and the
\* CameraOrientation events it hands to Commands::trigger
rotate_camera(cs, dt, cam_count, cam) ==
    IF cam_count = 1
    THEN LET rotation == slerp(cam.rotation, desired_rotation(cs),
                               Mul(dt, cs.smoothing))
         IN  [camera |-> [cam EXCEPT !.rotation = rotation],
              triggers |-> <<[rotation |-> rotation,
                              translation |-> cam.translation]>>]
    ELSE [camera |-> cam, triggers |-> <<>>]

\* update_compass: the observer of CameraOrientation
update_compass(trigger, cmp) ==
    [cmp EXCEPT !.rotation = trigger.rotation,
                !.position = trigger.translation]

RECURSIVE ApplyTriggers(_, _)
ApplyTriggers(cmds, cmp) ==
    IF cmds = <<>> THEN cmp
    ELSE ApplyTriggers(Tail(cmds), update_compass(Head(cmds), cmp))


(***************************************************************************)
(* Bounds and input sets                                                   *)
(***************************************************************************)
MaxFrames == 2
MaxEvents == 2
MaxCalls == 3
MaxArg == 5
Huge == 10000

\* Vec2 payloads of RotateCameraEvent, in units of 1/One
EventPayloads == {<<1, 0>>, <<0, -1>>}

\* Time::delta_seconds(), in units of 1/One second
DeltaSeconds == {1, 8}

\* with_x_limits(min, max), in degrees: a usual range and a range without 0
LimitChoices == {<<-45, 60>>, <<10, 60>>}

\* for direct calls of the mutators, a few degrees wide: a usual range, a
\* range without 0, an inverted range, and the default
SmallLimitChoices == {<<-3, 4>>, <<2, 4>>, <<4, -3>>, RotationLimitsDefault}

SmoothingChoices == {One}

\* the anchor entities of the scene: none, one CameraAnchor(None), one
\* CameraAnchor(Some(offset))
AnchorChoices ==
    {[count |-> 0, translation |-> 0, offset |-> <<>>],
     [count |-> 1, translation |-> 2, offset |-> <<>>],
     [count |-> 1, translation |-> 2, offset |-> <<4>>]}

CameraCounts == {0, 1}

ArgValues == (-MaxArg..MaxArg) \cup {-Huge, Huge}

NoCall == [op |-> "none", arg |-> 0, before |-> CameraSettingsDefault, result |-> 0]

NoRot == [desired |-> <<0, 0>>, translation |-> 0, after_translate |-> FALSE]

\* the history of a frame that has just begun
HistBegin(h) ==
    [h EXCEPT !.carry = h.late, !.early = <<>>, !.late = <<>>,
              !.rot = NoRot, !.refreshes = 0]

HistInit ==
    [calls |-> 0, call |-> NoCall, prev_call |-> NoCall,
     early |-> <<>>, late |-> <<>>, carry |-> <<>>,
     rot |-> NoRot, refreshes |-> 0]

\* the state VictimlessCameraPlugin::build leaves, for the settings cs
Built(cs, anc_count, anc) ==
    /\ settings = cs
    /\ compass = MovementCompassDefault
    /\ camera = TransformDefault
    /\ camera_count = 0
    /\ anchor = anc
    /\ anchor_count = anc_count
    /\ events_a = <<>>
    /\ events_b = <<>>
    /\ event_count = 0
    /\ cursor = 0
    /\ time_delta = 0
    /\ commands = <<>>
    /\ pc = "idle"
    /\ ran = {}
    /\ frame = 0
    /\ hist = HistInit

Init ==
    \E lim \in LimitChoices, sm \in SmoothingChoices, anc \in AnchorChoices :
        Built(with_x_limits(
                  with_smoothing(
                      with_y_sensitivity(
                          with_x_sensitivity(CameraSettingsDefault, One), 2 * One),
                      sm),
                  lim[1], lim[2]),
              anc.count, [translation |-> anc.translation, offset |-> anc.offset])

(***************************************************************************)
(* One frame of the app                                                    *)
(***************************************************************************)
\* the schedules before Update: the frame's delta time is set, the event
\* buffers are swapped (event_update_system), and the host has spawned or
\* despawned cameras
BeginFrame ==
    /\ pc = "idle"
    /\ frame < MaxFrames
    /\ \E dt \in DeltaSeconds, cc \in CameraCounts :
        /\ time_delta' = dt
        /\ camera_count' = cc
        /\ hist' = HistBegin(hist)
    /\ events_a' = events_b
    /\ events_b' = <<>>
    /\ pc' = "update"
    /\ ran' = {}
    /\ frame' = frame + 1
    /\ UNCHANGED <<settings, camera, anchor_count, anchor, compass, event_count,
                   cursor, commands>>

\* the input collaborator sends a RotateCameraEvent at some point of the frame
SendEvent ==
    /\ pc = "update"
    /\ event_count < MaxEvents
    /\ \E v \in EventPayloads :
        /\ events_b' = Append(events_b, [id |-> event_count + 1, x |-> v[1], y |-> v[2]])
        /\ hist' = IF "read" \in ran
                   THEN [hist EXCEPT !.late = Append(@, [x |-> v[1], y |-> v[2]])]
                   ELSE [hist EXCEPT !.early = Append(@, [x |-> v[1], y |-> v[2]])]
    /\ event_count' = event_count + 1
    /\ UNCHANGED <<settings, camera_count, camera, anchor_count, anchor, compass,
                   events_a, cursor, time_delta, commands, pc, ran, frame>>

RunReadInputs ==
    /\ pc = "update"
    /\ "read" \notin ran
    /\ settings' = read_camera_rotation_inputs(
                       settings, time_delta, Unread(events_a, events_b, cursor))
    /\ cursor' = event_count
    /\ ran' = ran \cup {"read"}
    /\ UNCHANGED <<camera_count, camera, anchor_count, anchor, compass, events_a,
                   events_b, event_count, time_delta, commands, pc, frame, hist>>

RunTranslateCamera ==
    /\ pc = "update"
    /\ "translate" \notin ran
    /\ camera' = translate_camera(settings, time_delta, camera_count, camera,
                                  anchor_count, anchor)
    /\ ran' = ran \cup {"translate"}
    /\ UNCHANGED <<settings, camera_count, anchor_count, anchor, compass, events_a,
                   events_b, event_count, cursor, time_delta, commands, pc, frame,
                   hist>>

RunRotateCamera ==
    /\ pc = "update"
    /\ "rotate" \notin ran
    /\ LET out == rotate_camera(settings, time_delta, camera_count, camera) IN
        /\ camera' = out.camera
        /\ commands' = commands \o out.triggers
    /\ hist' = [hist EXCEPT !.rot =
                   [desired |-> desired_rotation(settings),
                    translation |-> camera.translation,
                    after_translate |-> "translate" \in ran]]
    /\ ran' = ran \cup {"rotate"}
    /\ UNCHANGED <<settings, camera_count, anchor_count, anchor, compass, events_a,
                   events_b, event_count, cursor, time_delta, pc, frame>>

\* a sync point: the queued commands are applied, each trigger runs the observer
ApplyDeferred ==
    /\ pc = "update"
    /\ commands # <<>>
    /\ compass' = ApplyTriggers(commands, compass)
    /\ commands' = <<>>
    /\ hist' = [hist EXCEPT !.refreshes = @ + Len(commands)]
    /\ UNCHANGED <<settings, camera_count, camera, anchor_count, anchor, events_a,
                   events_b, event_count, cursor, time_delta, pc, ran, frame>>

\* the Update schedule ends once its systems have run and its commands are applied
EndFrame ==
    /\ pc = "update"
    /\ ran = {"translate", "rotate", "read"}
    /\ commands = <<>>
    /\ pc' = "idle"
    /\ UNCHANGED <<settings, camera_count, camera, anchor_count, anchor, compass,
                   events_a, events_b, event_count, cursor, time_delta, commands,
                   ran, frame, hist>>

Next ==
    \/ BeginFrame
    \/ SendEvent
    \/ RunReadInputs
    \/ RunTranslateCamera
    \/ RunRotateCamera
    \/ ApplyDeferred
    \/ EndFrame

Spec == Init /\ [][Next]_vars

(***************************************************************************)
(* Direct calls of RotationLimits::clamp and the CameraSettings mutators   *)
(***************************************************************************)
InitCalls ==
    \E lim \in SmallLimitChoices :
        Built(with_x_limits(CameraSettingsDefault, lim[1], lim[2]),
              0, [translation |-> 0, offset |-> <<>>])

Called(op, arg, result) ==
    hist' = [hist EXCEPT !.calls = @ + 1,
                         !.prev_call = hist.call,
                         !.call = [op |-> op, arg |-> arg, before |-> settings,
                                   result |-> result]]

CallClamp ==
    /\ hist.calls < MaxCalls
    /\ \E v \in ArgValues : Called("clamp", v, clamp(settings.x_limits, v))
    /\ UNCHANGED <<settings, camera_count, camera, anchor_count, anchor, compass,
                   events_a, events_b, event_count, cursor, time_delta, commands,
                   pc, ran, frame>>

CallRotateX ==
    /\ hist.calls < MaxCalls
    /\ \E d \in ArgValues :
        /\ settings' = rotate_x(settings, d)
        /\ Called("rotate_x", d, settings'.x_angle)
    /\ UNCHANGED <<camera_count, camera, anchor_count, anchor, compass,
                   events_a, events_b, event_count, cursor, time_delta, commands,
                   pc, ran, frame>>

CallRotateY ==
    /\ hist.calls < MaxCalls
    /\ \E d \in ArgValues :
        /\ settings' = rotate_y(settings, d)
        /\ Called("rotate_y", d, settings'.y_angle)
    /\ UNCHANGED <<camera_count, camera, anchor_count, anchor, compass,
                   events_a, events_b, event_count, cursor, time_delta, commands,
                   pc, ran, frame>>

NextCalls == CallClamp \/ CallRotateX \/ CallRotateY

SpecCalls == InitCalls /\ [][NextCalls]_vars


(***************************************************************************)
(* Properties                                                              *)
(***************************************************************************)
\* the step of a frame in which the named system runs
ReadStep == "read" \in ran' /\ "read" \notin ran

TranslateStep == "translate" \in ran' /\ "translate" \notin ran

\* C1: after every call of rotate_x, x_angle lies within
\* [x_limits.min in radians, x_limits.max in radians], both ends included,
\* whatever the delta and whatever the limits.
C1_PitchWithinLimits ==
    hist.call.op = "rotate_x" =>
        /\ to_radians(settings.x_limits[1]) <= settings.x_angle
        /\ settings.x_angle <= to_radians(settings.x_limits[2])

\* C2: clamp(v) returns min_degrees in radians when v in degrees is below
\* min_degrees, otherwise max_degrees in radians when v in degrees is above
\* max_degrees, otherwise v; with inverted limits a value between the swapped
\* bounds gives min_degrees in radians; and the call changes no CameraSettings.
C2_ClampContract ==
    hist.call.op = "clamp" =>
        LET min_degrees == settings.x_limits[1]
            max_degrees == settings.x_limits[2]
            v == hist.call.arg
            r == hist.call.result
            deg == to_degrees(v)
        IN  /\ deg < min_degrees => r = to_radians(min_degrees)
            /\ (deg >= min_degrees /\ deg > max_degrees) => r = to_radians(max_degrees)
            /\ (deg >= min_degrees /\ deg <= max_degrees) => r = v
            /\ (min_degrees > max_degrees /\ max_degrees < deg /\ deg < min_degrees)
                   => r = to_radians(min_degrees)
            /\ settings = hist.call.before

\* C2 happens: clamp was called with inverted limits on a value between the
\* swapped bounds and gave min_degrees in radians.
C2_Witness ==
    /\ hist.call.op = "clamp"
    /\ settings.x_limits[1] > settings.x_limits[2]
    /\ settings.x_limits[2] < to_degrees(hist.call.arg)
    /\ to_degrees(hist.call.arg) < settings.x_limits[1]
    /\ hist.call.result = to_radians(settings.x_limits[1])
    /\ hist.call.result # hist.call.arg

C4_OneEventEffect ==
    [][(ReadStep /\ Len(Unread(events_a, events_b, cursor)) = 1) =>
          LET ev == Unread(events_a, events_b, cursor)[1]
              yaw_delta == Mul(Mul(Mul(-ev.x, FullTurn), time_delta),
                               settings.x_sensitivity)
              pitch_delta == Mul(Mul(Mul(-ev.y, FullTurn), time_delta),
                                 settings.y_sensitivity)
          IN  /\ settings'.y_angle =
                     IF ev.x # 0 THEN settings.y_angle + yaw_delta
                     ELSE settings.y_angle
              /\ settings'.x_angle =
                     IF ev.y # 0
                     THEN clamp(settings.x_limits, settings.x_angle + pitch_delta)
                     ELSE settings.x_angle]_vars

\* C4 happens: the handler has read the single event (x, 0) of the first frame;
\* the yaw moved and the pitch is still 0, below the limits' minimum.
C4_Witness ==
    /\ frame = 1
    /\ "read" \in ran
    /\ event_count = 1
    /\ cursor = 1
    /\ events_b[1].x # 0
    /\ events_b[1].y = 0
    /\ settings.y_angle # 0
    /\ settings.x_angle = 0
    /\ to_radians(settings.x_limits[1]) > 0

\* C5: in every frame the Rotation Input Handler runs before the Rotation
\* Updater, so that once both have run the desired rotation the Rotation
\* Updater used is the one of the angles with this frame's events applied.
C5_RotationUsesFrameInputs ==
    (camera_count = 1 /\ {"read", "rotate"} \subseteq ran) =>
        hist.rot.desired = desired_rotation(settings)

\* C6 (as claimed): MovementCompass starts at identity and origin, and at the
\* end of every frame with exactly one camera it has been refreshed exactly
\* once and holds the camera's rotation and translation as they stand at the
\* end of the frame, whatever order the updaters ran in.
C6_CompassIsFinalTransform ==
    /\ frame = 0 => compass = [rotation |-> <<0, 0>>, position |-> 0]
    /\ (pc = "idle" /\ frame > 0 /\ camera_count = 1) =>
           /\ hist.refreshes = 1
           /\ compass.rotation = camera.rotation
           /\ compass.position = camera.translation

\* C6 (amended): MovementCompass starts at identity and origin, and at the end
\* of every frame with exactly one camera it has been refreshed exactly once
\* and holds the camera's rotation of the end of the frame and the camera's
\* translation as it stood when the Rotation Updater ran, which is the
\* translation of the end of the frame when the Translation Updater ran first.
C6_CompassIsTransformAtRotation ==
    /\ frame = 0 => compass = [rotation |-> <<0, 0>>, position |-> 0]
    /\ (pc = "idle" /\ frame > 0 /\ camera_count = 1) =>
           /\ hist.refreshes = 1
           /\ compass.rotation = camera.rotation
           /\ compass.position = hist.rot.translation
           /\ hist.rot.after_translate => compass.position = camera.translation

\* C6 happens: a frame with one camera has ended, the camera has turned, and
\* the compass holds a translation the Translation Updater has since changed.
C6_Witness ==
    /\ pc = "idle"
    /\ frame > 0
    /\ camera_count = 1
    /\ camera.rotation # <<0, 0>>
    /\ compass.rotation = camera.rotation
    /\ ~hist.rot.after_translate
    /\ compass.position # camera.translation

\* C7: in a frame with no camera entity no step writes the camera transform,
\* queues a CameraOrientation or changes MovementCompass; in a frame with no
\* anchor entity no step changes the camera's translation.
C7_NoEntityNoChange ==
    [][/\ (pc = "update" /\ camera_count = 0) =>
              (camera' = camera /\ commands' = commands /\ compass' = compass)
       /\ (pc = "update" /\ anchor_count = 0) =>
              camera'.translation = camera.translation]_vars

\* C7 happens: both updaters have run in a frame without a camera, after a
\* frame that had moved the camera and refreshed the compass.
C7_Witness ==
    /\ pc = "update"
    /\ camera_count = 0
    /\ {"translate", "rotate"} \subseteq ran
    /\ camera.translation # 0
    /\ compass.position # 0
    /\ commands = <<>>
    /\ hist.refreshes = 0

\* the Translation Updater follows an anchor that has no offset
Follows ==
    /\ camera_count = 1
    /\ anchor_count = 1
    /\ anchor.offset = <<>>
    /\ settings.smoothing > 0
    /\ time_delta > 0

Distance(cam) == Abs(cam.translation - anchor.translation)

\* the camera has not passed the anchor
SameSide(before, after) ==
    \/ after.translation = anchor.translation
    \/ (after.translation < anchor.translation) = (before.translation < anchor.translation)

C9_AnglesOnlyByInputHandler ==
    [][settings' # settings =>
          (ReadStep /\ Unread(events_a, events_b, cursor) # <<>>)]_vars

\* C9 happens: a frame without unread events has run all its systems on angles
\* an earlier frame's events had set, with the pitch still outside the limits.
C9_Witness ==
    /\ frame = 2
    /\ ran = {"translate", "rotate", "read"}
    /\ commands = <<>>
    /\ hist.carry = <<>>
    /\ hist.early = <<>>
    /\ hist.late = <<>>
    /\ camera_count = 1
    /\ settings.y_angle # 0
    /\ settings.x_angle = 0
    /\ to_radians(settings.x_limits[1]) > 0
    /\ compass.rotation # <<0, 0>>

\* C10 (as claimed): every event is consumed within the frame it was sent in:
\* when a frame ends, the handler has read every event sent so far.
C10_ConsumedInFrameSent ==
    pc = "idle" => (cursor = event_count /\ hist.late = <<>>)

\* C10 (amended): every event sent is applied exactly once, in the order sent,
\* scaled by the elapsed time of the frame whose handler run reads it: that
\* run applies the events sent after the previous frame's run and then those
\* sent in its own frame before it, and nothing else; the events not yet
\* applied are the ones sent since the last run.
C10_EventsAppliedOnceInOrder ==
    /\ [](LET pending == IF "read" \in ran THEN hist.late
                         ELSE hist.carry \o hist.early
          IN  /\ Len(Unread(events_a, events_b, cursor)) = Len(pending)
              /\ \A i \in 1..Len(pending) :
                     /\ Unread(events_a, events_b, cursor)[i].x = pending[i].x
                     /\ Unread(events_a, events_b, cursor)[i].y = pending[i].y)
    /\ [][ReadStep =>
             settings' = ApplyEvents(settings, hist.carry \o hist.early,
                                     time_delta)]_vars

\* C10 happens: the handler of the second frame has applied an event sent
\* after the first frame's run and then an event of its own frame.
C10_Witness ==
    /\ frame = 2
    /\ "read" \in ran
    /\ Len(hist.carry) = 1
    /\ Len(hist.early) = 1
    /\ cursor = 2
    /\ settings.y_angle # 0
    /\ settings.x_angle # 0

=============================================================================
